---- MODULE Spec2Model ----
(***************************************************************************)
(* Model of the class-schedule creator: the demand and capacity calculator *)
(* (resource_calculator.py) and the greedy allocation engine with its      *)
(* validator (scheduler.py).  One run of Scheduler.create_schedule is a    *)
(* behaviour: Init is a constructed Scheduler, CreateSchedule builds the   *)
(* pools and the sorted course list, and the remaining actions are the     *)
(* iterations of the course / section / semester / period loops.           *)
(***************************************************************************)
EXTENDS Integers, Sequences, FiniteSets, TLC

(***************************************************************************)
(* Bounds of the explored inputs.                                          *)
(***************************************************************************)
MaxStudents == 2
MaxClassSize == 2
MaxPeriods == 3

(***************************************************************************)
(* Generic helpers.                                                        *)
(***************************************************************************)
Range(s) == {s[i] : i \in DOMAIN s}

RECURSIVE SumOver(_, _)
SumOver(f, S) ==
    IF S = {} THEN 0
    ELSE LET x == CHOOSE y \in S : TRUE IN f[x] + SumOver(f, S \ {x})

\* the orders in which a Python set with the elements S can be listed
Perms(S) ==
    {s \in [1..Cardinality(S) -> S] : \A i, j \in 1..Cardinality(S) : s[i] = s[j] => i = j}

\* keep the first occurrence of every element (insertion order of dict keys)
RECURSIVE FirstOccurrences(_)
FirstOccurrences(s) ==
    IF s = <<>> THEN <<>>
    ELSE LET rest == FirstOccurrences(SubSeq(s, 1, Len(s) - 1))
             last == s[Len(s)]
         IN  IF last \in Range(rest) THEN rest ELSE Append(rest, last)

RECURSIVE Flatten(_)
Flatten(ss) == IF ss = <<>> THEN <<>> ELSE Head(ss) \o Flatten(Tail(ss))

\* math.ceil(a / b) for b # 0
Ceil(a, b) ==
    IF b > 0 THEN (a + b - 1) \div b ELSE ((0 - a) + (0 - b) - 1) \div (0 - b)

(***************************************************************************)
(* models.py: the enumerations the scheduler looks at.                     *)
(***************************************************************************)
RoomType == {"GENERAL", "CHEMISTRY_LAB"}
SubjectArea == {"ENGLISH", "MATHEMATICS"}
CourseLevel == {"REGULAR", "AP"}
GraduationPath == {"MINIMUM", "PRE_MED"}

\* the order in which the caller's students_per_path dict lists the paths
PathOrder == <<"MINIMUM", "PRE_MED">>

\* codes of the catalog, and a code the plans name but the catalog lacks
Codes == {"A", "B", "C"}
MissingCode == "REL1"

Course(level, semesters, room, subject) ==
    [level |-> level, semesters |-> semesters,
     room_type_required |-> room, subject_area |-> subject]

\* the catalogs explored: every code gets one of these course records
CourseChoices(code) ==
    CASE code = "A" ->
           {Course("REGULAR", s, "GENERAL", sa) : s \in {1, 2}, sa \in SubjectArea}
      [] code = "B" ->
           {Course("AP", s, r, "ENGLISH") : s \in {1, 2}, r \in RoomType}
      [] OTHER ->
           {Course("REGULAR", 2, r, "ENGLISH") : r \in RoomType}

Catalogs == {cat \in [Codes -> UNION {CourseChoices(c) : c \in Codes}] :
                \A c \in Codes : cat[c] \in CourseChoices(c)}

YearPlan(year, s1, s2) ==
    [year |-> year, semester1_courses |-> s1, semester2_courses |-> s2]

\* graduation plans: year-long courses are in both lists, a single-semester
\* course in one, and REL1 is named without being in the catalog
PlanChoices ==
    { [p \in GraduationPath |->
         IF p = "MINIMUM"
         THEN << YearPlan(1, <<"A", "C", "REL1">>, <<"A", "C", "REL1">>),
                 YearPlan(2, <<"B">>, <<"B">>) >>
         ELSE << YearPlan(1, <<"C">>, <<"C">>),
                 YearPlan(2, <<"A">>, <<"B">>) >>] }

VARIABLES
    COURSE_CATALOG,       \* course code -> Course
    paths,                \* Scheduler.paths
    students_per_path,
    max_class_size,
    periods_per_day,
    pc,                   \* position in create_schedule
    classrooms,           \* list of Classroom
    teachers,             \* list of Teacher
    sections_needed,      \* code -> (year -> count)
    classroom_available,  \* [semester][period][classroom id]
    teacher_available,    \* [semester][period][teacher id]
    teacher_sections,     \* teacher id -> load counter
    scheduled_sections,   \* list of ScheduledSection
    section_counter,
    sorted_courses,
    course_idx,           \* position of the course loop in sorted_courses
    section_num,
    scheduled,
    semester,
    period,
    available_room,       \* id of the room of the placement just made
    available_teacher,    \* id of the teacher of the placement just made
    stdout,               \* the course of every WARNING printed
    errors,               \* the list MasterSchedule.validate returned
    requirements,         \* the ResourceRequirements calculate_requirements returned
    first_run             \* the section list an earlier create_schedule returned

config == <<COURSE_CATALOG, paths, students_per_path, max_class_size, periods_per_day>>
pools == <<classrooms, teachers, sections_needed, sorted_courses>>
tables == <<classroom_available, teacher_available, teacher_sections>>
loop == <<course_idx, section_num, scheduled, semester, period, available_room, available_teacher>>
returned == <<requirements, first_run>>
vars == <<config, pools, tables, loop, pc, scheduled_sections, section_counter, stdout, errors,
          returned>>


(***************************************************************************)
(* resource_calculator.py                                                  *)
(***************************************************************************)
\* YearPlan.get_all_courses: the distinct codes of the two semester lists
get_all_courses(yp) == Range(yp.semester1_courses \o yp.semester2_courses)

\* the year plans in the order calculate_sections_needed visits them
PlanKeys ==
    Flatten([k \in 1..Len(PathOrder) |->
                [i \in 1..Len(paths[PathOrder[k]]) |-> <<PathOrder[k], i>>]])

PlanAt(pi) == paths[pi[1]][pi[2]]

\* the year plans that list the code
Listing(code) == {pi \in Range(PlanKeys) : code \in get_all_courses(PlanAt(pi))}

\* the codes and years for which the demand accumulator gets an entry
DemandCodes == UNION {get_all_courses(PlanAt(pi)) : pi \in Range(PlanKeys)}

DemandYears(code) == {PlanAt(pi).year : pi \in Listing(code)}

\* a demand that counts a path once for every semester list naming the code
course_demand_PerSemesterList(code, year) ==
    LET listing == {pi \in Listing(code) : PlanAt(pi).year = year}
        Lists(pi) == (IF code \in Range(PlanAt(pi).semester1_courses) THEN 1 ELSE 0)
                     + (IF code \in Range(PlanAt(pi).semester2_courses) THEN 1 ELSE 0)
    IN  SumOver([pi \in listing |-> students_per_path[pi[1]] * Lists(pi)], listing)

course_demand(code, year) ==
    LET listing == {pi \in Listing(code) : PlanAt(pi).year = year}
    IN  SumOver([pi \in listing |-> students_per_path[pi[1]]], listing)

calculate_sections_needed ==
    [code \in DemandCodes |->
        [year \in DemandYears(code) |-> Ceil(course_demand(code, year), max_class_size)]]

\* position, in the iteration over paths and year plans, of the first year
\* plan that lists the code
FirstSeen(code) ==
    LET at == {k \in 1..Len(PlanKeys) : PlanKeys[k] \in Listing(code)}
    IN  CHOOSE m \in at : \A k \in at : m <= k

\* the key orders the result dict can have: a code first listed by an earlier
\* year plan comes first, codes of one year plan come in the set's order
SectionsNeededOrders ==
    {o \in Perms(DemandCodes) :
        \A i, j \in 1..Len(o) : i < j => FirstSeen(o[i]) <= FirstSeen(o[j])}

total_sections(sn, code) == SumOver(sn[code], DOMAIN sn[code])

InCatalog(code) == code \in DOMAIN COURSE_CATALOG

\* the keys of sections_needed that the catalog knows, in dict order
CatalogKeys(order) == SelectSeq(order, InCatalog)

\* a room count that rounds the quotient down
calculate_min_classrooms_RoundedDown(order) ==
    LET sn == calculate_sections_needed
        known == CatalogKeys(order)
        keys == FirstOccurrences(
                    [i \in 1..Len(known) |-> COURSE_CATALOG[known[i]].room_type_required])
        room_type_sections(rt) ==
            LET cs == {c \in Range(known) : COURSE_CATALOG[c].room_type_required = rt}
            IN  SumOver([c \in cs |-> total_sections(sn, c)], cs)
    IN  [i \in 1..Len(keys) |-> <<keys[i], room_type_sections(keys[i]) \div periods_per_day>>]

\* a dict is modelled as the sequence of its <<key, value>> items
calculate_min_classrooms(order) ==
    LET sn == calculate_sections_needed
        known == CatalogKeys(order)
        keys == FirstOccurrences(
                    [i \in 1..Len(known) |-> COURSE_CATALOG[known[i]].room_type_required])
        room_type_sections(rt) ==
            LET cs == {c \in Range(known) : COURSE_CATALOG[c].room_type_required = rt}
            IN  SumOver([c \in cs |-> total_sections(sn, c)], cs)
    IN  [i \in 1..Len(keys) |->
            <<keys[i], Ceil(room_type_sections(keys[i]), periods_per_day)>>]

\* a count that gives the AP teachers' spare periods to nobody
min_teachers_of_NoLeftover(ap_sections, regular_sections, max_teaching_periods) ==
    [ap_qualified |-> Ceil(ap_sections, max_teaching_periods),
     regular_only |-> Ceil(regular_sections, max_teaching_periods),
     total |-> Ceil(ap_sections, max_teaching_periods)
               + Ceil(regular_sections, max_teaching_periods)]

min_teachers_of(ap_sections, regular_sections, max_teaching_periods) ==
    LET ap_teachers == Ceil(ap_sections, max_teaching_periods)
        ap_teacher_capacity == ap_teachers * max_teaching_periods - ap_sections
        remaining_regular ==
            IF regular_sections - ap_teacher_capacity > 0
            THEN regular_sections - ap_teacher_capacity ELSE 0
        regular_teachers == Ceil(remaining_regular, max_teaching_periods)
    IN  [ap_qualified |-> ap_teachers, regular_only |-> regular_teachers,
         total |-> ap_teachers + regular_teachers]

\* a count that lets a teacher teach in every period of the day
calculate_min_teachers_NoPlanning(order) ==
    LET sn == calculate_sections_needed
        known == CatalogKeys(order)
        keys == FirstOccurrences(
                    [i \in 1..Len(known) |-> COURSE_CATALOG[known[i]].subject_area])
        subject_sections(subject, isAP) ==
            LET cs == {c \in Range(known) :
                         /\ COURSE_CATALOG[c].subject_area = subject
                         /\ (COURSE_CATALOG[c].level = "AP") = isAP}
            IN  SumOver([c \in cs |-> total_sections(sn, c)], cs)
    IN  [i \in 1..Len(keys) |->
            <<keys[i], min_teachers_of(subject_sections(keys[i], TRUE),
                                       subject_sections(keys[i], FALSE),
                                       periods_per_day)>>]

calculate_min_teachers(order) ==
    LET sn == calculate_sections_needed
        known == CatalogKeys(order)
        keys == FirstOccurrences(
                    [i \in 1..Len(known) |-> COURSE_CATALOG[known[i]].subject_area])
        subject_sections(subject, isAP) ==
            LET cs == {c \in Range(known) :
                         /\ COURSE_CATALOG[c].subject_area = subject
                         /\ (COURSE_CATALOG[c].level = "AP") = isAP}
            IN  SumOver([c \in cs |-> total_sections(sn, c)], cs)
    IN  [i \in 1..Len(keys) |->
            <<keys[i], min_teachers_of(subject_sections(keys[i], TRUE),
                                       subject_sections(keys[i], FALSE),
                                       periods_per_day - 1)>>]

(***************************************************************************)
(* models.py: compatibility of rooms and teachers with a course.           *)
(***************************************************************************)
\* a can_host that lets every room host every course
can_host_AnyRoom(classroom, course) == TRUE

can_host(classroom, course) ==
    IF course.room_type_required = "GENERAL" THEN TRUE
    ELSE classroom.room_type = course.room_type_required

\* a can_teach that does not ask for the AP qualification
can_teach_AnyLevel(teacher, course) == course.subject_area \in teacher.subject_areas

can_teach(teacher, course) ==
    IF course.subject_area \notin teacher.subject_areas THEN FALSE
    ELSE IF course.level = "AP" /\ ~teacher.can_teach_ap THEN FALSE
    ELSE TRUE

(***************************************************************************)
(* scheduler.py: the pools.                                                *)
(***************************************************************************)
subject_abbrev(subject) ==
    CASE subject = "ENGLISH" -> "ENG" [] subject = "MATHEMATICS" -> "MATH"

\* room ids f"{room_type.name}_{i}" are the pairs <<room type, i>>
create_classrooms(order) ==
    LET min_rooms == calculate_min_classrooms(order)
    IN  Flatten([k \in 1..Len(min_rooms) |->
            [i \in 1..min_rooms[k][2] |->
                [id |-> <<min_rooms[k][1], i>>, room_type |-> min_rooms[k][1],
                 capacity |-> max_class_size]]])

\* teacher ids f"{abbrev}_AP_{i}" and f"{abbrev}_REG_{i}" are triples
create_teachers(order) ==
    LET min_teachers == calculate_min_teachers(order)
        Made(subject, info) ==
            [i \in 1..info.ap_qualified |->
                [id |-> <<subject_abbrev(subject), "AP", i>>, subject_areas |-> {subject},
                 can_teach_ap |-> TRUE, max_periods_per_day |-> periods_per_day - 1]]
            \o
            [i \in 1..info.regular_only |->
                [id |-> <<subject_abbrev(subject), "REG", i>>, subject_areas |-> {subject},
                 can_teach_ap |-> FALSE, max_periods_per_day |-> periods_per_day - 1]]
    IN  Flatten([k \in 1..Len(min_teachers) |-> Made(min_teachers[k][1], min_teachers[k][2])])

\* a priority in which the room requirement outweighs the AP level
course_priority_RoomFirst(code) ==
    IF ~InCatalog(code) THEN 0
    ELSE LET course == COURSE_CATALOG[code]
         IN  0 - ( (IF course.level = "AP" THEN 50 ELSE 0)
                 + (IF course.room_type_required # "GENERAL" THEN 100 ELSE 0) )

course_priority(code) ==
    IF ~InCatalog(code) THEN 0
    ELSE LET course == COURSE_CATALOG[code]
         IN  0 - ( (IF course.level = "AP" THEN 100 ELSE 0)
                 + (IF course.room_type_required # "GENERAL" THEN 50 ELSE 0) )

\* sorted(keys, key=course_priority): ascending and stable; the key takes
\* the values -150, -100, -50 and 0 only
SortedByPriority(order) ==
    LET With(k) == LET Has(code) == course_priority(code) = k IN SelectSeq(order, Has)
    IN  With(0 - 150) \o With(0 - 100) \o With(0 - 50) \o With(0)

(***************************************************************************)
(* scheduler.py: Scheduler.create_schedule                                 *)
(***************************************************************************)
Init ==
    /\ COURSE_CATALOG \in Catalogs
    /\ paths \in PlanChoices
    /\ students_per_path \in [GraduationPath -> 0..MaxStudents]
    /\ max_class_size \in 1..MaxClassSize
    /\ periods_per_day \in 2..MaxPeriods
    /\ pc = "start"
    /\ classrooms = <<>>
    /\ teachers = <<>>
    /\ sections_needed = <<>>
    /\ classroom_available = <<>>
    /\ teacher_available = <<>>
    /\ teacher_sections = <<>>
    /\ scheduled_sections = <<>>
    /\ section_counter = 0
    /\ sorted_courses = <<>>
    /\ course_idx = 0
    /\ section_num = 0
    /\ scheduled = FALSE
    /\ semester = 1
    /\ period = 1
    /\ available_room = <<>>
    /\ available_teacher = <<>>
    /\ stdout = <<>>
    /\ errors = <<>>
    /\ requirements = <<>>
    /\ first_run = <<>>

Ids(list) == {list[i].id : i \in DOMAIN list}

\* lines 194-229: the pools, the availability tables and the sorted courses
CreateSchedule ==
    /\ pc = "start"
    /\ \E order \in SectionsNeededOrders :
        /\ classrooms' = create_classrooms(order)
        /\ teachers' = create_teachers(order)
        /\ sections_needed' = calculate_sections_needed
        /\ sorted_courses' = SortedByPriority(order)
    /\ classroom_available' =
         [s \in {1, 2} |-> [p \in 1..periods_per_day |-> [c \in Ids(classrooms') |-> TRUE]]]
    /\ teacher_available' =
         [s \in {1, 2} |-> [p \in 1..periods_per_day |-> [t \in Ids(teachers') |-> TRUE]]]
    /\ teacher_sections' = [t \in Ids(teachers') |-> 0]
    /\ scheduled_sections' = <<>>
    /\ section_counter' = 0
    /\ course_idx' = 1
    /\ pc' = "course"
    /\ UNCHANGED <<config, returned, section_num, scheduled, semester, period,
                   available_room, available_teacher, stdout, errors>>

course_code == sorted_courses[course_idx]
course == COURSE_CATALOG[course_code]

\* the compatible rooms listed from the end of the pool
compatible_rooms_Reversed ==
    LET Hosts(c) == can_host(c, course)
        rooms == SelectSeq(classrooms, Hosts)
    IN  [i \in 1..Len(rooms) |-> rooms[Len(rooms) + 1 - i]]

compatible_rooms == LET Hosts(c) == can_host(c, course) IN SelectSeq(classrooms, Hosts)
compatible_teachers == LET Teaches(t) == can_teach(t, course) IN SelectSeq(teachers, Teaches)
\* every course is tried in both semesters
semesters_to_schedule_Both == <<1, 2>>

semesters_to_schedule == IF course.semesters = 2 THEN <<1, 2>> ELSE <<1>>

\* line 325: the course loop is exhausted
Return ==
    /\ pc = "course"
    /\ course_idx > Len(sorted_courses)
    /\ pc' = "done"
    /\ UNCHANGED <<config, returned, pools, tables, loop, scheduled_sections, section_counter, stdout, errors>>

\* lines 232-234: a code the catalog lacks is passed over
SkipCourse ==
    /\ pc = "course"
    /\ course_idx <= Len(sorted_courses)
    /\ ~InCatalog(course_code)
    /\ course_idx' = course_idx + 1
    /\ UNCHANGED <<config, returned, pools, tables, pc, section_num, scheduled, semester, period,
                   available_room, available_teacher, scheduled_sections,
                   section_counter, stdout, errors>>

\* lines 236-255
BeginCourse ==
    /\ pc = "course"
    /\ course_idx <= Len(sorted_courses)
    /\ InCatalog(course_code)
    /\ section_num' = 0
    /\ pc' = "section"
    /\ UNCHANGED <<config, returned, pools, tables, course_idx, scheduled, semester, period,
                   available_room, available_teacher, scheduled_sections,
                   section_counter, stdout, errors>>

\* lines 257-261: the next section unit starts its scan
BeginSection ==
    /\ pc = "section"
    /\ section_num < total_sections(sections_needed, course_code)
    /\ scheduled' = FALSE
    /\ semester' = semesters_to_schedule[1]
    /\ period' = 1
    /\ pc' = "scan"
    /\ UNCHANGED <<config, returned, pools, tables, course_idx, section_num,
                   available_room, available_teacher, scheduled_sections,
                   section_counter, stdout, errors>>

\* line 257: all section units of the course are done
EndCourse ==
    /\ pc = "section"
    /\ section_num >= total_sections(sections_needed, course_code)
    /\ course_idx' = course_idx + 1
    /\ pc' = "course"
    /\ UNCHANGED <<config, returned, pools, tables, section_num, scheduled, semester, period,
                   available_room, available_teacher, scheduled_sections,
                   section_counter, stdout, errors>>

\* a room search that does not look at classroom_available
FreeRooms_Unchecked(s, p) == compatible_rooms

\* lines 266-270: the rooms of compatible_rooms free at the period, in order
FreeRooms(s, p) ==
    LET Free(c) == classroom_available[s][p][c.id] IN SelectSeq(compatible_rooms, Free)

\* a teacher search that looks at the load counter only
FreeTeachers_Unchecked(s, p) ==
    LET Free(t) == teacher_sections[t.id] < t.max_periods_per_day * 2
    IN  SelectSeq(compatible_teachers, Free)

\* lines 276-281: the teachers free at the period with remaining capacity
FreeTeachers(s, p) ==
    LET Free(t) == /\ teacher_available[s][p][t.id]
                   /\ teacher_sections[t.id] < t.max_periods_per_day * 2
    IN  SelectSeq(compatible_teachers, Free)

\* lines 260-261: the next iteration of the period and semester loops
NextSlot ==
    IF period < periods_per_day
    THEN /\ period' = period + 1
         /\ UNCHANGED <<semester, pc>>
    ELSE IF semester = 1 /\ Len(semesters_to_schedule) = 2
    THEN /\ semester' = 2
         /\ period' = 1
         /\ UNCHANGED pc
    ELSE /\ pc' = "section_end"
         /\ UNCHANGED <<semester, period>>

\* lines 272-273: no compatible room is free at the period
ScanNoRoom ==
    /\ pc = "scan"
    /\ FreeRooms(semester, period) = <<>>
    /\ NextSlot
    /\ UNCHANGED <<config, returned, pools, tables, course_idx, section_num, scheduled,
                   available_room, available_teacher, scheduled_sections,
                   section_counter, stdout, errors>>

\* lines 283-284: a room is free but no teacher is
ScanNoTeacher ==
    /\ pc = "scan"
    /\ FreeRooms(semester, period) # <<>>
    /\ FreeTeachers(semester, period) = <<>>
    /\ NextSlot
    /\ UNCHANGED <<config, returned, pools, tables, course_idx, section_num, scheduled,
                   available_room, available_teacher, scheduled_sections,
                   section_counter, stdout, errors>>

\* a section record numbered by its period
ScheduledSection_NumberedByPeriod(code, id, p, s, room, teacher) ==
    [course_code |-> code, section_id |-> p, period |-> p, semester |-> s,
     classroom_id |-> room, teacher_id |-> teacher]

ScheduledSection(code, id, p, s, room, teacher) ==
    [course_code |-> code, section_id |-> id, period |-> p, semester |-> s,
     classroom_id |-> room, teacher_id |-> teacher]

\* a placement that leaves the load counter as it is
Place_Uncounted ==
    /\ pc = "scan"
    /\ FreeRooms(semester, period) # <<>>
    /\ FreeTeachers(semester, period) # <<>>
    /\ LET room == Head(FreeRooms(semester, period))
           teacher == Head(FreeTeachers(semester, period))
       IN  /\ section_counter' = section_counter + 1
           /\ scheduled_sections' =
                Append(scheduled_sections,
                       ScheduledSection(course_code, section_counter + 1, period, semester,
                                        room.id, teacher.id))
           /\ classroom_available' =
                [classroom_available EXCEPT ![semester][period][room.id] = FALSE]
           /\ teacher_available' =
                [teacher_available EXCEPT ![semester][period][teacher.id] = FALSE]
           /\ teacher_sections' = teacher_sections
           /\ available_room' = room.id
           /\ available_teacher' = teacher.id
    /\ scheduled' = TRUE
    /\ pc' = IF course.semesters = 2 /\ semester = 1 THEN "mirror" ELSE "section_end"
    /\ UNCHANGED <<config, returned, pools, course_idx, section_num, semester, period, stdout, errors>>

\* lines 286-306: the first-fit placement
Place ==
    /\ pc = "scan"
    /\ FreeRooms(semester, period) # <<>>
    /\ FreeTeachers(semester, period) # <<>>
    /\ LET room == Head(FreeRooms(semester, period))
           teacher == Head(FreeTeachers(semester, period))
       IN  /\ section_counter' = section_counter + 1
           /\ scheduled_sections' =
                Append(scheduled_sections,
                       ScheduledSection(course_code, section_counter + 1, period, semester,
                                        room.id, teacher.id))
           /\ classroom_available' =
                [classroom_available EXCEPT ![semester][period][room.id] = FALSE]
           /\ teacher_available' =
                [teacher_available EXCEPT ![semester][period][teacher.id] = FALSE]
           /\ teacher_sections' =
                [teacher_sections EXCEPT ![teacher.id] = teacher_sections[teacher.id] + 1]
           /\ available_room' = room.id
           /\ available_teacher' = teacher.id
    /\ scheduled' = TRUE
    /\ pc' = IF course.semesters = 2 /\ semester = 1 THEN "mirror" ELSE "section_end"
    /\ UNCHANGED <<config, returned, pools, course_idx, section_num, semester, period, stdout, errors>>

\* a test that never finds semester 2 free
MirrorFree_Never == FALSE

\* lines 308-309
MirrorFree ==
    /\ classroom_available[2][period][available_room]
    /\ teacher_available[2][period][available_teacher]

\* a mirror that leaves the availability tables as they are
Mirror_Unmarked ==
    /\ pc = "mirror"
    /\ MirrorFree
    /\ scheduled_sections' =
         Append(scheduled_sections,
                ScheduledSection(course_code, section_counter, period, 2,
                                 available_room, available_teacher))
    /\ pc' = "section_end"
    /\ UNCHANGED <<config, returned, pools, tables, loop, section_counter, stdout, errors>>

\* lines 310-320: the semester-2 twin of a year-long course
Mirror ==
    /\ pc = "mirror"
    /\ MirrorFree
    /\ scheduled_sections' =
         Append(scheduled_sections,
                ScheduledSection(course_code, section_counter, period, 2,
                                 available_room, available_teacher))
    /\ classroom_available' = [classroom_available EXCEPT ![2][period][available_room] = FALSE]
    /\ teacher_available' = [teacher_available EXCEPT ![2][period][available_teacher] = FALSE]
    /\ pc' = "section_end"
    /\ UNCHANGED <<config, returned, pools, loop, teacher_sections, section_counter, stdout, errors>>

\* line 308 false: the room or the teacher is taken in semester 2
MirrorSkip ==
    /\ pc = "mirror"
    /\ ~MirrorFree
    /\ pc' = "section_end"
    /\ UNCHANGED <<config, returned, pools, tables, loop, scheduled_sections, section_counter, stdout, errors>>

\* line 322 with scheduled = True
SectionScheduled ==
    /\ pc = "section_end"
    /\ scheduled
    /\ section_num' = section_num + 1
    /\ pc' = "section"
    /\ UNCHANGED <<config, returned, pools, tables, course_idx, scheduled, semester, period,
                   available_room, available_teacher, scheduled_sections,
                   section_counter, stdout, errors>>

\* lines 322-323: the WARNING for a section unit that found no slot
WarnUnscheduled ==
    /\ pc = "section_end"
    /\ ~scheduled
    /\ stdout' = Append(stdout, course_code)
    /\ section_num' = section_num + 1
    /\ pc' = "section"
    /\ UNCHANGED <<config, returned, pools, tables, course_idx, scheduled, semester, period,
                   available_room, available_teacher, scheduled_sections,
                   section_counter, errors>>

(***************************************************************************)
(* scheduler.py: MasterSchedule.validate                                   *)
(***************************************************************************)
\* range(1, 7) of line 67: the periods validate looks at
ValidatedPeriods == 6

get_sections_by_period(sections, p, s) ==
    LET At(x) == x.period = p /\ x.semester = s IN SelectSeq(sections, At)

\* lines 71-94: one error for every id that the sections of the period use
\* more than once, in the order the ids first occur
Conflicts(kind, sections, ids, p, s) ==
    LET used == FirstOccurrences(ids)
        Of(id) == {i \in DOMAIN sections : ids[i] = id}
        Twice(id) == Cardinality(Of(id)) > 1
        twice == SelectSeq(used, Twice)
    IN  [k \in 1..Len(twice) |->
            [kind |-> kind, id |-> twice[k], period |-> p, semester |-> s,
             courses |-> LET Uses(x) == IF kind = "Classroom" THEN x.classroom_id = twice[k]
                                        ELSE x.teacher_id = twice[k]
                             hit == SelectSeq(sections, Uses)
                         IN  [i \in 1..Len(hit) |-> hit[i].course_code]]]

validate(all) ==
    Flatten([s \in 1..2 |->
        Flatten([p \in 1..ValidatedPeriods |->
            LET sections == get_sections_by_period(all, p, s)
            IN  Conflicts("Classroom", sections,
                          [i \in DOMAIN sections |-> sections[i].classroom_id], p, s)
                \o
                Conflicts("Teacher", sections,
                          [i \in DOMAIN sections |-> sections[i].teacher_id], p, s)])])

\* scheduler.py line 377: the returned schedule is validated
Validate ==
    /\ pc = "done"
    /\ errors' = validate(scheduled_sections)
    /\ pc' = "validated"
    /\ UNCHANGED <<config, returned, pools, tables, loop, scheduled_sections, section_counter, stdout>>

Next ==
    \/ CreateSchedule
    \/ Return
    \/ SkipCourse
    \/ BeginCourse
    \/ BeginSection
    \/ EndCourse
    \/ ScanNoRoom
    \/ ScanNoTeacher
    \/ Place
    \/ Mirror
    \/ MirrorSkip
    \/ SectionScheduled
    \/ WarnUnscheduled
    \/ Validate

Spec == Init /\ [][Next]_vars

(***************************************************************************)
(* Validation of arbitrary section lists.                                  *)
(***************************************************************************)
MaxListed == 2

ListedRooms == {<<"GENERAL", 1>>, <<"GENERAL", 2>>}
ListedTeachers == {<<"ENG", "REG", 1>>, <<"ENG", "REG", 2>>}

\* the section lists of at most MaxListed sections with periods up to ppd
SectionLists(ppd) ==
    LET Slots == (1..ppd) \X {1, 2} \X ListedRooms \X ListedTeachers
    IN  UNION {{[i \in 1..n |-> ScheduledSection("A", i, f[i][1], f[i][2], f[i][3], f[i][4])] :
                    f \in [1..n -> Slots]} : n \in 0..MaxListed}

InitValidate ==
    /\ COURSE_CATALOG = CHOOSE cat \in Catalogs : TRUE
    /\ paths \in PlanChoices
    /\ students_per_path = [p \in GraduationPath |-> 0]
    /\ max_class_size = 1
    /\ periods_per_day \in {ValidatedPeriods, ValidatedPeriods + 1}
    /\ scheduled_sections \in SectionLists(periods_per_day)
    /\ pc = "done"
    /\ classrooms = <<>>
    /\ teachers = <<>>
    /\ sections_needed = <<>>
    /\ classroom_available = <<>>
    /\ teacher_available = <<>>
    /\ teacher_sections = <<>>
    /\ section_counter = 0
    /\ sorted_courses = <<>>
    /\ course_idx = 0
    /\ section_num = 0
    /\ scheduled = FALSE
    /\ semester = 1
    /\ period = 1
    /\ available_room = <<>>
    /\ available_teacher = <<>>
    /\ stdout = <<>>
    /\ errors = <<>>
    /\ requirements = <<>>
    /\ first_run = <<>>

NextValidate == Validate

SpecValidate == InitValidate /\ [][NextValidate]_vars

(***************************************************************************)
(* resource_calculator.py: ResourceCalculator.calculate_requirements       *)
(***************************************************************************)
MaxEnrolled == 12
DefaultPeriods == 6

\* plans in which MINIMUM alone lists the AP course B, PRE_MED alone lists
\* C, in two years, and both paths list A in the same year
CalculatorPlans ==
    { [p \in GraduationPath |->
         IF p = "MINIMUM"
         THEN << YearPlan(1, <<"B", "A">>, <<"B">>) >>
         ELSE << YearPlan(1, <<"C", "A">>, <<"C", "A">>),
                 YearPlan(2, <<"C", "REL1">>, <<"C">>) >>] }

\* the calculator does not look at the semesters of a course
CalculatorCatalogs == {cat \in Catalogs : cat["A"].semesters = 2 /\ cat["B"].semesters = 2}

InitCalculator ==
    /\ COURSE_CATALOG \in CalculatorCatalogs
    /\ paths \in CalculatorPlans
    /\ students_per_path \in [GraduationPath -> 0..MaxEnrolled]
    /\ max_class_size \in 1..MaxClassSize
    /\ periods_per_day \in 2..DefaultPeriods
    /\ pc = "start"
    /\ classrooms = <<>>
    /\ teachers = <<>>
    /\ sections_needed = <<>>
    /\ classroom_available = <<>>
    /\ teacher_available = <<>>
    /\ teacher_sections = <<>>
    /\ scheduled_sections = <<>>
    /\ section_counter = 0
    /\ sorted_courses = <<>>
    /\ course_idx = 0
    /\ section_num = 0
    /\ scheduled = FALSE
    /\ semester = 1
    /\ period = 1
    /\ available_room = <<>>
    /\ available_teacher = <<>>
    /\ stdout = <<>>
    /\ errors = <<>>
    /\ requirements = <<>>
    /\ first_run = <<>>

\* calculate_concurrent_sections summed over the room types of a year
total_sections_per_period ==
    LET sn == calculate_sections_needed
        known == {c \in DOMAIN sn : InCatalog(c)}
        years == UNION {DOMAIN sn[c] : c \in known}
    IN  [year \in years |->
            LET cs == {c \in known : year \in DOMAIN sn[c]}
            IN  SumOver([c \in cs |-> sn[c][year]], cs)]

\* the divisions of the three calculations: by max_class_size for every
\* accumulated demand, by periods_per_day for every room type, and by
\* periods_per_day - 1 for every subject
RaisesZeroDivision ==
    \/ max_class_size = 0 /\ DemandCodes # {}
    \/ periods_per_day = 0 /\ \E c \in DemandCodes : InCatalog(c)
    \/ periods_per_day - 1 = 0 /\ \E c \in DemandCodes : InCatalog(c)

CalculateRequirements ==
    /\ pc = "start"
    /\ ~RaisesZeroDivision
    /\ sections_needed' = calculate_sections_needed
    /\ \E order \in SectionsNeededOrders :
         requirements' =
            [min_classrooms |-> calculate_min_classrooms(order),
             min_teachers |-> calculate_min_teachers(order),
             total_sections_per_period |-> total_sections_per_period,
             course_sections |->
                [code \in DemandCodes |-> total_sections(calculate_sections_needed, code)]]
    /\ pc' = "calculated"
    /\ UNCHANGED <<config, first_run, classrooms, teachers, sorted_courses, tables, loop,
                   scheduled_sections, section_counter, stdout, errors>>

NextCalculator == CalculateRequirements

SpecCalculator == InitCalculator /\ [][NextCalculator]_vars

(***************************************************************************)
(* resource_calculator.py: construction on any configuration               *)
(***************************************************************************)
\* __init__ stores whatever it is given: sizes, period counts and
\* enrollments below the valid ranges are among the configurations
InitConfig ==
    /\ COURSE_CATALOG \in CalculatorCatalogs
    /\ paths \in CalculatorPlans
    /\ students_per_path \in [GraduationPath -> (0 - 1)..MaxStudents]
    /\ max_class_size \in (0 - 1)..MaxClassSize
    /\ periods_per_day \in (0 - 1)..MaxPeriods
    /\ pc = "start"
    /\ classrooms = <<>>
    /\ teachers = <<>>
    /\ sections_needed = <<>>
    /\ classroom_available = <<>>
    /\ teacher_available = <<>>
    /\ teacher_sections = <<>>
    /\ scheduled_sections = <<>>
    /\ section_counter = 0
    /\ sorted_courses = <<>>
    /\ course_idx = 0
    /\ section_num = 0
    /\ scheduled = FALSE
    /\ semester = 1
    /\ period = 1
    /\ available_room = <<>>
    /\ available_teacher = <<>>
    /\ stdout = <<>>
    /\ errors = <<>>
    /\ requirements = <<>>
    /\ first_run = <<>>

\* a division by zero ends calculate_requirements with ZeroDivisionError
RaiseZeroDivisionError ==
    /\ pc = "start"
    /\ RaisesZeroDivision
    /\ pc' = "raised"
    /\ UNCHANGED <<config, returned, pools, tables, loop, scheduled_sections,
                   section_counter, stdout, errors>>

NextConfig == CalculateRequirements \/ RaiseZeroDivisionError

SpecConfig == InitConfig /\ [][NextConfig]_vars

(***************************************************************************)
(* Two runs of create_schedule on one catalog, plans and configuration.    *)
(***************************************************************************)
\* a fresh Scheduler is built on the same inputs and create_schedule is
\* called again; the list the earlier run returned is kept for comparison
RunAgain ==
    /\ pc = "done"
    /\ first_run = <<>>
    /\ first_run' = <<scheduled_sections>>
    /\ pc' = "start"
    /\ classrooms' = <<>>
    /\ teachers' = <<>>
    /\ sections_needed' = <<>>
    /\ sorted_courses' = <<>>
    /\ classroom_available' = <<>>
    /\ teacher_available' = <<>>
    /\ teacher_sections' = <<>>
    /\ scheduled_sections' = <<>>
    /\ section_counter' = 0
    /\ course_idx' = 0
    /\ section_num' = 0
    /\ scheduled' = FALSE
    /\ semester' = 1
    /\ period' = 1
    /\ available_room' = <<>>
    /\ available_teacher' = <<>>
    /\ stdout' = <<>>
    /\ UNCHANGED <<config, requirements, errors>>

InitTwoRuns == Init /\ max_class_size = 1

NextTwoRuns == Next \/ RunAgain

SpecTwoRuns == InitTwoRuns /\ [][NextTwoRuns]_vars

(***************************************************************************)
(* Properties.                                                             *)
(***************************************************************************)
Placed == DOMAIN scheduled_sections
Sec(i) == scheduled_sections[i]
SameSlot(i, j) == Sec(i).period = Sec(j).period /\ Sec(i).semester = Sec(j).semester
IsMirror(j) == \E i \in Placed : i < j /\ Sec(i).section_id = Sec(j).section_id
ClassroomOf(id) == CHOOSE c \in Range(classrooms) : c.id = id
TeacherOf(id) == CHOOSE t \in Range(teachers) : t.id = id
SectionsOf(code, s) == {i \in Placed : Sec(i).course_code = code /\ Sec(i).semester = s}
Load(t) == Cardinality({i \in Placed : Sec(i).teacher_id = t})
LoadIn(t, s) == Cardinality({i \in Placed : Sec(i).teacher_id = t /\ Sec(i).semester = s})
Required(code) == total_sections(sections_needed, code)

\* C1: after every placement step (first fit or semester-2 mirror) no two
\* scheduled sections have the same classroom, period and semester.
C1_NoClassroomDoubleBooking ==
    \A i, j \in Placed :
        i # j /\ SameSlot(i, j) => Sec(i).classroom_id # Sec(j).classroom_id

\* a mirror has been added and two sections of one slot are in different rooms
C1_Witness ==
    /\ \E j \in Placed : IsMirror(j)
    /\ \E i, j \in Placed :
        i # j /\ SameSlot(i, j) /\ Sec(i).classroom_id # Sec(j).classroom_id

\* C2: after every placement step (first fit or semester-2 mirror) no two
\* scheduled sections have the same teacher, period and semester.
C2_NoTeacherDoubleBooking ==
    \A i, j \in Placed :
        i # j /\ SameSlot(i, j) => Sec(i).teacher_id # Sec(j).teacher_id

\* a mirror has been added and one teacher holds sections in two periods of a
\* semester while another teacher shares one of these periods
C2_Witness ==
    /\ \E j \in Placed : IsMirror(j) /\ Sec(j).semester = 2
    /\ \E i, j, k \in Placed :
        /\ Sec(i).teacher_id = Sec(j).teacher_id
        /\ Sec(i).semester = Sec(j).semester
        /\ Sec(i).period # Sec(j).period
        /\ SameSlot(i, k)
        /\ Sec(i).teacher_id # Sec(k).teacher_id

DoubleBooked(sections) ==
    \E i, j \in DOMAIN sections :
        /\ i # j
        /\ sections[i].period = sections[j].period
        /\ sections[i].semester = sections[j].semester
        /\ \/ sections[i].classroom_id = sections[j].classroom_id
           \/ sections[i].teacher_id = sections[j].teacher_id

\* C3: for any list of scheduled sections and any periods_per_day, validate
\* returns a non-empty list exactly when a classroom or a teacher occurs in
\* two sections of the same period and semester.
C3_ValidateExact ==
    pc = "validated" => ((errors # <<>>) <=> DoubleBooked(scheduled_sections))

\* C4: with the pools the calculator sizes, the finished schedule is
\* complete: every catalog course has as many semester-1 sections as the sum
\* of its per-year section counts, and every year-long course as many
\* semester-2 sections.
C4_CompleteSchedule ==
    pc = "done" =>
        \A code \in DOMAIN sections_needed \cap DOMAIN COURSE_CATALOG :
            /\ Cardinality(SectionsOf(code, 1)) = Required(code)
            /\ COURSE_CATALOG[code].semesters = 2 =>
                 Cardinality(SectionsOf(code, 2)) = Required(code)

\* C5: no teacher carries more than 2 x max_periods_per_day scheduled
\* sections, counted over both semesters with the mirrored sections.
C5_TeacherTotalLoad ==
    \A i \in DOMAIN teachers :
        Load(teachers[i].id) <= 2 * teachers[i].max_periods_per_day

\* C6: in each semester a teacher is assigned at most periods_per_day - 1
\* sections, which leaves a planning period.
C6_PlanningPeriod ==
    \A i \in DOMAIN teachers : \A s \in {1, 2} :
        LoadIn(teachers[i].id, s) <= periods_per_day - 1

\* the WARNINGs printed for the course
Warnings(code) == Cardinality({k \in DOMAIN stdout : stdout[k] = code})

\* C7: every section unit that could not be placed in a semester its course
\* runs in is recorded as a fault naming the course, also when a year-long
\* course fails in semester 1 and is placed in semester 2; the WARNINGs are
\* the only record the run keeps.
C7_UnplacedRecorded ==
    pc = "done" =>
        \A code \in DOMAIN sections_needed \cap DOMAIN COURSE_CATALOG :
            Warnings(code) >= Required(code) - Cardinality(SectionsOf(code, 1))

\* C8: when the semester-1 placement of a year-long course cannot be
\* mirrored, no semester-2 section is added and the gap is recorded.
C8_GapRecorded ==
    [][(pc = "mirror" /\ ~MirrorFree) =>
          (scheduled_sections' = scheduled_sections /\ stdout' # stdout)]_vars

\* C9: every semester-2 section of a year-long course has a semester-1
\* section of the same course with the same period, classroom and teacher.
C9_MatchingSlots ==
    \A j \in Placed :
        (Sec(j).semester = 2 /\ COURSE_CATALOG[Sec(j).course_code].semesters = 2) =>
            \E i \in Placed :
                /\ Sec(i).semester = 1
                /\ Sec(i).course_code = Sec(j).course_code
                /\ Sec(i).period = Sec(j).period
                /\ Sec(i).classroom_id = Sec(j).classroom_id
                /\ Sec(i).teacher_id = Sec(j).teacher_id

\* C10: every scheduled section is in a classroom of the room type its
\* course requires, unless the course requires only GENERAL.
C10_RoomTypeMatches ==
    \A i \in Placed :
        LET required == COURSE_CATALOG[Sec(i).course_code].room_type_required
        IN  \/ required = "GENERAL"
            \/ ClassroomOf(Sec(i).classroom_id).room_type = required

\* a course that needs a laboratory is placed while a GENERAL classroom is
\* in the pool, and a GENERAL course sits in a laboratory
C10_Witness ==
    /\ \E k \in DOMAIN classrooms : classrooms[k].room_type = "GENERAL"
    /\ \E i \in Placed :
        COURSE_CATALOG[Sec(i).course_code].room_type_required = "CHEMISTRY_LAB"
    /\ \E i \in Placed :
        /\ COURSE_CATALOG[Sec(i).course_code].room_type_required = "GENERAL"
        /\ ClassroomOf(Sec(i).classroom_id).room_type = "CHEMISTRY_LAB"

\* C11: every scheduled section, semester-2 mirrors included, is taught by a
\* teacher whose subject areas contain the subject area of the course, and a
\* section of an AP course is taught by an AP-qualified teacher.
C11_TeacherQualified ==
    \A i \in Placed :
        LET teacher == TeacherOf(Sec(i).teacher_id)
            placed_course == COURSE_CATALOG[Sec(i).course_code]
        IN  /\ placed_course.subject_area \in teacher.subject_areas
            /\ placed_course.level = "AP" => teacher.can_teach_ap

\* an AP section and its mirror are placed while a teacher without the AP
\* qualification and a teacher of another subject are in the pool
C11_Witness ==
    /\ \E i \in Placed :
         /\ COURSE_CATALOG[Sec(i).course_code].level = "AP"
         /\ IsMirror(i)
    /\ \E i \in Placed : ~TeacherOf(Sec(i).teacher_id).can_teach_ap
    /\ \E t \in Range(teachers) : "ENGLISH" \in t.subject_areas /\ ~t.can_teach_ap
    /\ \E t \in Range(teachers) : "MATHEMATICS" \in t.subject_areas

\* C12: a run of create_schedule on the catalog, plans and configuration of
\* an earlier run returns the same list of scheduled sections, in the same
\* order, whatever order the unordered collections iterate in.
C12_SameSchedule ==
    (pc = "done" /\ first_run # <<>>) => scheduled_sections = first_run[1]

\* n is the ceiling of x / d: the least count of groups of d that hold x
IsCeiling(n, x, d) == n * d >= x /\ (n - 1) * d < x

\* the catalog courses of a subject and level that some year plan lists
ListedCourses(subject, level) ==
    {c \in DOMAIN sections_needed \cap DOMAIN COURSE_CATALOG :
        COURSE_CATALOG[c].subject_area = subject /\ COURSE_CATALOG[c].level = level}

\* the sections of a subject at a level, over all courses and years
SubjectSections(subject, level) ==
    LET cs == ListedCourses(subject, level) IN SumOver([c \in cs |-> Required(c)], cs)

\* C13: for every subject, with A the AP sections, R the regular sections and
\* cap = periods_per_day - 1, calculate_min_teachers returns
\* ap_qualified = ceil(A / cap), regular_only = ceil(max(0, R - leftover) / cap)
\* where leftover = ap_qualified * cap - A, and total = their sum; A = 12,
\* R = 10, cap = 5 gives 3, 2 and 5; A = 0 gives no AP teacher and
\* ceil(R / cap) regular ones; R <= leftover gives no regular teacher.
C13_MinTeachers ==
    pc = "calculated" =>
        LET min_teachers == requirements.min_teachers
            cap == periods_per_day - 1
        IN  /\ \A subject \in SubjectArea :
                 (ListedCourses(subject, "AP") \cup ListedCourses(subject, "REGULAR") # {})
                 => \E k \in DOMAIN min_teachers : min_teachers[k][1] = subject
            /\ \A k \in DOMAIN min_teachers :
                 LET info == min_teachers[k][2]
                     A == SubjectSections(min_teachers[k][1], "AP")
                     R == SubjectSections(min_teachers[k][1], "REGULAR")
                     leftover == info.ap_qualified * cap - A
                 IN  /\ IsCeiling(info.ap_qualified, A, cap)
                     /\ IsCeiling(info.regular_only, IF R > leftover THEN R - leftover ELSE 0, cap)
                     /\ info.total = info.ap_qualified + info.regular_only
                     /\ (A = 12 /\ R = 10 /\ cap = 5)
                        => info = [ap_qualified |-> 3, regular_only |-> 2, total |-> 5]
                     /\ A = 0 => info.ap_qualified = 0 /\ IsCeiling(info.regular_only, R, cap)
                     /\ R <= leftover => info.regular_only = 0

\* one subject has 12 AP and 10 regular sections under a cap of 5, another
\* subject has regular sections and no AP section
C13_Witness ==
    /\ pc = "calculated"
    /\ periods_per_day - 1 = 5
    /\ SubjectSections("ENGLISH", "AP") = 12
    /\ SubjectSections("ENGLISH", "REGULAR") = 10
    /\ SubjectSections("MATHEMATICS", "AP") = 0
    /\ SubjectSections("MATHEMATICS", "REGULAR") > 0
    /\ Len(requirements.min_teachers) = 2

\* the students of the paths whose plan for the year lists the code in
\* either semester list, every path counted once
Enrolled(code, year) ==
    LET Lists(p) ==
            \E i \in DOMAIN paths[p] :
                /\ paths[p][i].year = year
                /\ \/ code \in Range(paths[p][i].semester1_courses)
                   \/ code \in Range(paths[p][i].semester2_courses)
    IN  SumOver([p \in GraduationPath |-> IF Lists(p) THEN students_per_path[p] ELSE 0],
                GraduationPath)

\* the catalog courses of a room category that some year plan lists
CategoryCourses(rt) ==
    {c \in DOMAIN sections_needed \cap DOMAIN COURSE_CATALOG :
        COURSE_CATALOG[c].room_type_required = rt}

\* T: the per-year section counts of the courses of a room category, summed
CategorySections(rt) ==
    LET cs == CategoryCourses(rt) IN SumOver([c \in cs |-> Required(c)], cs)

\* C14: for every room category calculate_min_classrooms returns
\* ceil(T / periods_per_day), T being the sum over the catalog courses of
\* the category of their per-year section counts; T = 13 under 6 periods
\* gives 3 and T = 12 gives 2.
C14_MinClassrooms ==
    pc = "calculated" =>
        LET min_classrooms == requirements.min_classrooms
        IN  /\ \A rt \in RoomType :
                 CategoryCourses(rt) # {}
                 => \E k \in DOMAIN min_classrooms : min_classrooms[k][1] = rt
            /\ \A k \in DOMAIN min_classrooms :
                 LET T == CategorySections(min_classrooms[k][1])
                     rooms == min_classrooms[k][2]
                 IN  /\ IsCeiling(rooms, T, periods_per_day)
                     /\ (T = 13 /\ periods_per_day = 6) => rooms = 3
                     /\ (T = 12 /\ periods_per_day = 6) => rooms = 2

\* a category has 13 sections under 6 periods, and one of its courses has
\* more sections than the ceiling of its demand summed over the years
C14_Witness ==
    /\ pc = "calculated"
    /\ periods_per_day = 6
    /\ \E k \in DOMAIN requirements.min_classrooms :
         LET rt == requirements.min_classrooms[k][1]
         IN  /\ CategorySections(rt) = 13
             /\ \E c \in CategoryCourses(rt) :
                  LET years == DOMAIN sections_needed[c]
                      demand == SumOver([y \in years |-> Enrolled(c, y)], years)
                  IN  ~IsCeiling(Required(c), demand, max_class_size)

PlanYears == UNION {{paths[p][i].year : i \in DOMAIN paths[p]} : p \in GraduationPath}

\* some path's plan for the year names the code in a semester list
ListedIn(code, year) ==
    \E p \in GraduationPath : \E i \in DOMAIN paths[p] :
        /\ paths[p][i].year = year
        /\ \/ code \in Range(paths[p][i].semester1_courses)
           \/ code \in Range(paths[p][i].semester2_courses)

\* C15: for every course code and year, calculate_sections_needed returns
\* ceil(demand / max_class_size), the demand being the sum of the
\* enrollments of the paths whose plan for that year lists the course, a
\* path counted once even when the course is in both of its semester lists.
C15_SectionsNeeded ==
    pc = "calculated" =>
        /\ \A code \in Codes, year \in PlanYears :
             (ListedIn(code, year) /\ Enrolled(code, year) > 0)
             => (code \in DOMAIN sections_needed /\ year \in DOMAIN sections_needed[code])
        /\ \A code \in DOMAIN sections_needed : \A year \in DOMAIN sections_needed[code] :
             IsCeiling(sections_needed[code][year], Enrolled(code, year), max_class_size)

\* two paths with students list a course in one year, one of them in both
\* semester lists, and the demand is not a multiple of the class size
C15_Witness ==
    /\ pc = "calculated"
    /\ \A p \in GraduationPath : students_per_path[p] > 0
    /\ \E code \in Codes, year \in PlanYears :
         /\ \A p \in GraduationPath : \E i \in DOMAIN paths[p] :
               paths[p][i].year = year /\ code \in Range(paths[p][i].semester1_courses)
         /\ \E p \in GraduationPath : \E i \in DOMAIN paths[p] :
               /\ paths[p][i].year = year
               /\ code \in Range(paths[p][i].semester1_courses)
               /\ code \in Range(paths[p][i].semester2_courses)
         /\ sections_needed[code][year] * max_class_size > Enrolled(code, year)
         /\ sections_needed[code][year] > 1

\* C16: a course and year whose accumulated demand is zero has no entry in
\* the result of calculate_sections_needed.
C16_ZeroDemandAbsent ==
    pc = "calculated" =>
        \A code \in DOMAIN sections_needed : \A year \in DOMAIN sections_needed[code] :
            Enrolled(code, year) # 0

\* C17: a code that a year plan lists and the catalog lacks is never a key
\* of the result of calculate_sections_needed.
C17_MissingCodeNoKey ==
    pc = "calculated" => DOMAIN sections_needed \subseteq DOMAIN COURSE_CATALOG

\* C18: when a plan lists a code the catalog lacks, the run returns, no
\* scheduled section carries the code, and a warning naming the code is
\* recorded.
C18_MissingCodeWarned ==
    pc = "done" =>
        \A code \in DOMAIN sections_needed \ DOMAIN COURSE_CATALOG :
            /\ \A i \in Placed : Sec(i).course_code # code
            /\ \E k \in DOMAIN stdout : stdout[k] = code

\* C19: the calculator maps no room category to 0 and no subject to a
\* total of 0, whatever the enrollment, 0 included.
C19_NoZeroEntries ==
    pc = "calculated" =>
        /\ \A k \in DOMAIN requirements.min_classrooms :
             requirements.min_classrooms[k][2] # 0
        /\ \A k \in DOMAIN requirements.min_teachers :
             requirements.min_teachers[k][2].total # 0

\* C20: a configuration with periods_per_day < 2, max_class_size <= 0 or a
\* negative enrollment is rejected before anything is computed: no result
\* is produced from it.
C20_InvalidRejected ==
    (\/ periods_per_day < 2
     \/ max_class_size <= 0
     \/ \E p \in GraduationPath : students_per_path[p] < 0)
    => (pc # "calculated" /\ requirements = <<>> /\ sections_needed = <<>>)

\* the step appends a first-fit placement (the step of the scan position)
Places == pc = "scan" /\ Len(scheduled_sections') = Len(scheduled_sections) + 1

\* the section a step has just appended
Added == scheduled_sections'[Len(scheduled_sections')]

\* C21: a first-fit placement uses the smallest period of its semester at
\* which a compatible classroom is free and a qualified teacher is free
\* with remaining capacity, and takes the first such classroom and the
\* first such teacher in the order of the pools; at no earlier period of
\* the semester were both available when the placement was made.
C21_FirstFit ==
    [][Places =>
        LET placed_course == COURSE_CATALOG[Added.course_code]
            RoomFits(k, p) ==
                /\ can_host(classrooms[k], placed_course)
                /\ classroom_available[Added.semester][p][classrooms[k].id]
            TeacherFits(k, p) ==
                /\ can_teach(teachers[k], placed_course)
                /\ teacher_available[Added.semester][p][teachers[k].id]
                /\ teacher_sections[teachers[k].id] < 2 * teachers[k].max_periods_per_day
        IN  /\ \A p \in 1..(Added.period - 1) :
                 ~( /\ \E k \in DOMAIN classrooms : RoomFits(k, p)
                    /\ \E k \in DOMAIN teachers : TeacherFits(k, p) )
            /\ \E k \in DOMAIN classrooms :
                 /\ classrooms[k].id = Added.classroom_id
                 /\ RoomFits(k, Added.period)
                 /\ \A j \in 1..(k - 1) : ~RoomFits(j, Added.period)
            /\ \E k \in DOMAIN teachers :
                 /\ teachers[k].id = Added.teacher_id
                 /\ TeacherFits(k, Added.period)
                 /\ \A j \in 1..(k - 1) : ~TeacherFits(j, Added.period)
    ]_vars

\* a placement has just been made after period 1 of semester 1, in a room
\* and with a teacher that are not the first compatible ones of the pools,
\* while another compatible room comes later in the pool
C21_Witness ==
    /\ pc \in {"mirror", "section_end"}
    /\ scheduled
    /\ semester = 1
    /\ period > 1
    /\ Head(compatible_rooms).id # available_room
    /\ compatible_rooms[Len(compatible_rooms)].id # available_room
    /\ Head(compatible_teachers).id # available_teacher

CourseOf(i) == COURSE_CATALOG[Sec(i).course_code]

\* C22: courses are processed in priority order: every section of an AP
\* course is placed before any section of a non-AP course, and among
\* courses of one level those that require a specialized room are placed
\* before those that require a GENERAL room only.
C22_PriorityOrder ==
    \A i, j \in Placed :
        i < j =>
            /\ ~(CourseOf(i).level # "AP" /\ CourseOf(j).level = "AP")
            /\ CourseOf(i).level = CourseOf(j).level
               => ~( /\ CourseOf(i).room_type_required = "GENERAL"
                     /\ CourseOf(j).room_type_required # "GENERAL" )

\* sections of an AP course in a GENERAL room, of a regular course that
\* requires a laboratory and of a regular GENERAL course are all placed,
\* while the key order of sections_needed put a GENERAL course first (the
\* room pool starts with a GENERAL room)
C22_Witness ==
    /\ pc = "done"
    /\ \E i, j, k \in Placed :
         /\ i < j /\ j < k
         /\ CourseOf(i).level = "AP" /\ CourseOf(i).room_type_required = "GENERAL"
         /\ CourseOf(j).level = "REGULAR" /\ CourseOf(j).room_type_required # "GENERAL"
         /\ CourseOf(k).level = "REGULAR" /\ CourseOf(k).room_type_required = "GENERAL"
    /\ classrooms[1].room_type = "GENERAL"

\* the position of a code in the lexicographic order of the codes
CodeRank(code) ==
    CASE code = "A" -> 1 [] code = "B" -> 2 [] code = "C" -> 3 [] code = "REL1" -> 4

\* C23: courses of equal priority weight are processed in lexicographic
\* order of their codes, whatever order sections_needed yields its keys in.
C23_LexicographicTies ==
    \A i, j \in DOMAIN sorted_courses :
        (i < j /\ course_priority(sorted_courses[i]) = course_priority(sorted_courses[j]))
        => CodeRank(sorted_courses[i]) < CodeRank(sorted_courses[j])

\* the step appends a semester-1 placement of a year-long course
PlacesYearLong ==
    /\ Places
    /\ Added.semester = 1
    /\ COURSE_CATALOG[Added.course_code].semesters = 2

\* C24: when a section of a year-long course has been placed in semester 1
\* at period p with classroom R and teacher T, and R and T are both free at
\* period p in semester 2, a semester-2 section with the same course,
\* section id, period, classroom and teacher is added and R and T are
\* marked taken at period p in semester 2.
C24_MirrorAdded ==
    [][ /\ PlacesYearLong => pc' = "mirror"
        /\ pc = "mirror" =>
             LET first == scheduled_sections[Len(scheduled_sections)]
                 p == first.period
                 R == first.classroom_id
                 T == first.teacher_id
             IN  /\ first.semester = 1
                 /\ COURSE_CATALOG[first.course_code].semesters = 2
                 /\ (classroom_available[2][p][R] /\ teacher_available[2][p][T])
                    => /\ scheduled_sections' =
                            Append(scheduled_sections, [first EXCEPT !.semester = 2])
                       /\ ~classroom_available'[2][p][R]
                       /\ ~teacher_available'[2][p][T]
      ]_vars

\* a semester-1 section of a year-long course is followed by its
\* semester-2 twin, and both slots are marked taken
C24_Witness ==
    /\ pc = "section_end"
    /\ Len(scheduled_sections) >= 2
    /\ LET n == Len(scheduled_sections)
       IN  /\ Sec(n).semester = 2
           /\ Sec(n - 1).semester = 1
           /\ Sec(n) = [Sec(n - 1) EXCEPT !.semester = 2]
           /\ COURSE_CATALOG[Sec(n).course_code].semesters = 2
           /\ ~classroom_available[2][Sec(n).period][Sec(n).classroom_id]
           /\ ~teacher_available[2][Sec(n).period][Sec(n).teacher_id]

\* C25: for every subject, with A AP sections, R regular sections and
\* cap = periods_per_day - 1, the counts of calculate_min_teachers satisfy
\* total = ceil((A + R) / cap) and ap_qualified * cap >= A: total * cap
\* covers A + R and no smaller total would.
C25_TotalTeachers ==
    pc = "calculated" =>
        \A k \in DOMAIN requirements.min_teachers :
            LET info == requirements.min_teachers[k][2]
                A == SubjectSections(requirements.min_teachers[k][1], "AP")
                R == SubjectSections(requirements.min_teachers[k][1], "REGULAR")
                cap == periods_per_day - 1
            IN  /\ info.total * cap >= A + R
                /\ (info.total - 1) * cap < A + R
                /\ info.ap_qualified * cap >= A

\* a subject whose AP teachers have spare periods that take some but not
\* all of the regular sections
C25_Witness ==
    /\ pc = "calculated"
    /\ \E k \in DOMAIN requirements.min_teachers :
         LET info == requirements.min_teachers[k][2]
             A == SubjectSections(requirements.min_teachers[k][1], "AP")
             R == SubjectSections(requirements.min_teachers[k][1], "REGULAR")
             cap == periods_per_day - 1
         IN  /\ A > 0
             /\ info.ap_qualified * cap > A
             /\ info.regular_only > 0
             /\ info.regular_only * cap > R - (info.ap_qualified * cap - A)
             /\ (A + R) % cap # 0

\* C26: a course that requires a GENERAL room only is placed in a classroom
\* of a specialized category only at a period at which no GENERAL
\* classroom is free in that semester, whatever the order of the pool.
C26_GeneralRoomPreferred ==
    [][ ( /\ Places
          /\ COURSE_CATALOG[Added.course_code].room_type_required = "GENERAL"
          /\ ClassroomOf(Added.classroom_id).room_type # "GENERAL" )
        => ~\E k \in DOMAIN classrooms :
              /\ classrooms[k].room_type = "GENERAL"
              /\ classroom_available[Added.semester][Added.period][classrooms[k].id]
      ]_vars

C28_SectionIds ==
    /\ scheduled_sections # <<>> => Sec(1).section_id = 1
    /\ \A i \in Placed :
         i > 1 =>
            \/ Sec(i).section_id = Sec(i - 1).section_id + 1
            \/ /\ Sec(i).section_id = Sec(i - 1).section_id
               /\ Sec(i - 1).semester = 1
               /\ Sec(i) = [Sec(i - 1) EXCEPT !.semester = 2]
    /\ \A i, j \in Placed :
         (i < j /\ Sec(i).section_id = Sec(j).section_id) => j = i + 1
    /\ section_counter = Cardinality({Sec(i).section_id : i \in Placed})

\* a mirrored section is followed by first-fit placements in both
\* semesters, and a later section was mirrored again
C28_Witness ==
    /\ pc = "done"
    /\ \E i, j, k \in Placed :
         /\ i + 1 < j /\ j + 1 < k
         /\ Sec(i).section_id = Sec(i + 1).section_id
         /\ Sec(j).section_id # Sec(j - 1).section_id
         /\ Sec(j).section_id # Sec(j + 1).section_id
         /\ Sec(k).section_id = Sec(k - 1).section_id
    /\ \E j \in Placed :
         /\ Sec(j).semester = 2
         /\ \A i \in Placed : i # j => Sec(i).section_id # Sec(j).section_id

\* C29: throughout create_schedule the availability tables agree with the
\* section list: classroom_available[s][p][r] is False exactly when a
\* scheduled section has classroom r, period p and semester s, and
\* teacher_available[s][p][t] is False exactly when a scheduled section
\* has teacher t, period p and semester s.
C29_TablesAgree ==
    pc # "start" =>
        \A s \in {1, 2} : \A p \in 1..periods_per_day :
            /\ \A r \in Ids(classrooms) :
                 ~classroom_available[s][p][r]
                 <=> \E i \in Placed : /\ Sec(i).classroom_id = r
                                       /\ Sec(i).period = p
                                       /\ Sec(i).semester = s
            /\ \A t \in Ids(teachers) :
                 ~teacher_available[s][p][t]
                 <=> \E i \in Placed : /\ Sec(i).teacher_id = t
                                       /\ Sec(i).period = p
                                       /\ Sec(i).semester = s

\* the run is in its scan with taken and free entries in both tables of
\* both semesters
C29_Witness ==
    /\ pc = "scan"
    /\ \A s \in {1, 2} :
         /\ \E p \in 1..periods_per_day : \E r \in Ids(classrooms) :
               ~classroom_available[s][p][r]
         /\ \E p \in 1..periods_per_day : \E r \in Ids(classrooms) :
               classroom_available[s][p][r]
         /\ \E p \in 1..periods_per_day : \E t \in Ids(teachers) :
               ~teacher_available[s][p][t]
         /\ \E p \in 1..periods_per_day : \E t \in Ids(teachers) :
               teacher_available[s][p][t]

\* every load counter equals the number of first-fit placements of its
\* teacher: the distinct section ids among the teacher's sections
LoadCounted ==
    \A t \in DOMAIN teacher_sections :
        teacher_sections[t] =
            Cardinality({Sec(i).section_id : i \in {j \in Placed : Sec(j).teacher_id = t}})

\* C30: a teacher's load counter equals the number of first-fit placements
\* assigned to the teacher; adding a semester-2 mirror leaves every load
\* counter unchanged, and a failed placement attempt leaves the counters,
\* both availability tables and the section list unchanged.
C30_LoadCounterFrame ==
    [][ /\ LoadCounted'
        /\ pc = "mirror" => teacher_sections' = teacher_sections
        /\ ( \/ pc = "scan" /\ ~Places
             \/ pc = "section_end" /\ ~scheduled )
           => UNCHANGED <<teacher_sections, classroom_available, teacher_available,
                          scheduled_sections>>
      ]_vars

\* after a failed attempt was reported, a mirror has just been added for a
\* teacher whose counter is below the number of the teacher's sections
C30_Witness ==
    /\ pc = "section_end"
    /\ scheduled
    /\ stdout # <<>>
    /\ Len(scheduled_sections) >= 2
    /\ LET n == Len(scheduled_sections)
       IN  /\ Sec(n).section_id = Sec(n - 1).section_id
           /\ teacher_sections[Sec(n).teacher_id] < Load(Sec(n).teacher_id)
           /\ teacher_sections[Sec(n).teacher_id] > 1

====
